---- MODULE Spec2Model ----
(***************************************************************************)
(* A model of relm4-macros' TopLevelWidget::parse                          *)
(* (src/relm4-macros/src/widgets/parse/top_level_widget.rs).               *)
(*                                                                         *)
(* One call of parse is followed statement by statement: `pc` is the       *)
(* position inside the function.  The input token stream is abstracted to  *)
(* what the two sub-parsers can make of it: the leading attribute syntax   *)
(* (none / well formed / malformed, and the attributes it spells) and the  *)
(* outcome of Widget::parse, which is chosen when the call is made.        *)
(***************************************************************************)
EXTENDS Integers, Sequences, FiniteSets, TLC

(* ------------------------------------------------------------------ *)
(* Bounds                                                               *)
(* ------------------------------------------------------------------ *)

\* Longest leading attribute list that is enumerated.
MaxAttrs == 3

(* ------------------------------------------------------------------ *)
(* Option / Result                                                      *)
(* ------------------------------------------------------------------ *)

None == [tag |-> "None"]

Some(v) == [tag |-> "Some", val |-> v]

Ok(v) == [tag |-> "Ok", val |-> v]

Err(e) == [tag |-> "Err", err |-> e]

\* Result::ok(): Ok(v) becomes Some(v), Err(_) becomes None (the error is dropped).
ResultOk(r) == IF r.tag = "Ok" THEN Some(r.val) ELSE None

(* ------------------------------------------------------------------ *)
(* Strings and identifiers                                              *)
(* ------------------------------------------------------------------ *)

\* A string is the sequence of its characters.
UpperChars == <<"A","B","C","D","E","F","G","H","I","J","K","L","M",
                "N","O","P","Q","R","S","T","U","V","W","X","Y","Z">>

LowerChars == <<"a","b","c","d","e","f","g","h","i","j","k","l","m",
                "n","o","p","q","r","s","t","u","v","w","x","y","z">>

SeqRange(s) == {s[i] : i \in 1..Len(s)}

IsUpper(c) == c \in SeqRange(UpperChars)

IsLower(c) == c \in SeqRange(LowerChars)

ToLower(c) ==
    IF IsUpper(c)
    THEN LowerChars[CHOOSE i \in 1..Len(UpperChars) : UpperChars[i] = c]
    ELSE c

\* Snake-case normalisation of a string: a separator becomes "_", an upper
\* case letter is lowered, and a "_" is put in front of an upper case letter
\* that follows a lower case one.
RECURSIVE SnakeFrom(_, _)
SnakeFrom(s, i) ==
    IF i > Len(s) THEN <<>>
    ELSE LET c == s[i]
             piece == IF c \in {"-", " ", "_"} THEN <<"_">>
                      ELSE IF IsUpper(c) /\ i > 1 /\ IsLower(s[i - 1])
                           THEN <<"_", ToLower(c)>>
                           ELSE <<ToLower(c)>>
         IN piece \o SnakeFrom(s, i + 1)

\* An identifier: its text and the span it carries.
Ident(text, span) == [text |-> text, span |-> span]

\* parse_util::string_to_snake_case: the snake-cased text as an identifier
\* spanned at the macro call site.
string_to_snake_case(s) == Ident(SnakeFrom(s, 1), "call_site")

\* parse_util::strings_to_path: a path without leading colon whose segments
\* are the given strings, in order.
strings_to_path(segs) == [leading_colon |-> None, segments |-> segs]

Str_incorrect_top_level_widget ==
    <<"i","n","c","o","r","r","e","c","t","_","t","o","p","_",
      "l","e","v","e","l","_","w","i","d","g","e","t">>

Str_invalid_property ==
    <<"i","n","v","a","l","i","d","_","p","r","o","p","e","r","t","y">>

Str_gtk == <<"g","t","k">>

Str_Box == <<"B","o","x">>

(* ------------------------------------------------------------------ *)
(* Attributes                                                           *)
(* ------------------------------------------------------------------ *)

\* The identifiers a root marker can carry (two markers differ by span).
RootIdents == {Ident(<<"r","o","o","t">>, "span_a"), Ident(<<"r","o","o","t">>, "span_b")}

\* Attr::Root(ident)
AttrRoot(ident) == [kind |-> "Root", ident |-> ident]

\* Any other variant of Attr; the payload tells the values apart.
AttrOther(kind, payload) == [kind |-> kind, payload |-> payload]

IsRoot(attr) == attr.kind = "Root"

AttrValues ==
    {AttrRoot(id) : id \in RootIdents}
        \cup {AttrOther("Doc", "d1"), AttrOther("Watch", "none"), AttrOther("Local", "l1")}

RECURSIVE SeqsUpTo(_, _)
SeqsUpTo(S, n) ==
    IF n = 0 THEN {<<>>}
    ELSE LET shorter == SeqsUpTo(S, n - 1)
         IN shorter \cup {Append(s, x) : s \in {t \in shorter : Len(t) = n - 1}, x \in S}

AttrLists == SeqsUpTo(AttrValues, MaxAttrs)

(* ------------------------------------------------------------------ *)
(* Diagnostics                                                          *)
(* ------------------------------------------------------------------ *)

\* A syn::Error: message and span.  `origin` records which sub-parser raised
\* it; it is bookkeeping of the model and no field of the program's value.
Diagnostic(message, span, origin) ==
    [message |-> message, span |-> span, origin |-> origin]

Messages == {"expected identifier", "unexpected end of input"}

Spans == {"span_c", "span_d"}

AttrDiagnostics == {Diagnostic(m, s, "Attrs::parse") : m \in Messages, s \in Spans}

WidgetDiagnostics == {Diagnostic(m, s, "Widget::parse") : m \in Messages, s \in Spans}

(* ------------------------------------------------------------------ *)
(* Widgets                                                              *)
(* ------------------------------------------------------------------ *)

WidgetFields ==
    {"doc_attr", "attr", "mutable", "name", "func", "args", "properties",
     "wrapper", "ref_token", "deref_token", "returned_widget"}

IsWidget(w) == DOMAIN w = WidgetFields

\* PropertyType::ParseError(err)
ParseError(err) == [kind |-> "ParseError", err |-> err]

\* A property type that carries real property data.
AssignProperty(expr) == [kind |-> "Assign", expr |-> expr]

\* Property { name: PropertyName::Ident(ident), ty }
Property(ident, ty) == [name |-> [kind |-> "Ident", ident |-> ident], ty |-> ty]

\* The property lists of the widgets Widget::parse can return: none, a plain
\* property, and a property whose own parse failed inside the body.
OkPropertyLists ==
    {<<>>,
     <<Property(Ident(<<"v","i","s","i","b","l","e">>, "span_c"), AssignProperty("true"))>>}
        \cup {<<Property(Ident(<<"v","i","s","i","b","l","e">>, "span_c"), ParseError(d))>>
                  : d \in {Diagnostic("expected identifier", "span_d", "Widget::parse")}}

\* The widgets Widget::parse can return on success.
OkWidgets ==
    {[doc_attr |-> d,
      attr |-> a,
      mutable |-> m,
      name |-> Ident(<<"m","y","_","b","u","t","t","o","n">>, "span_c"),
      func |-> [path |-> strings_to_path(<<Str_gtk, <<"B","u","t","t","o","n">>>>),
                args |-> None, method_chain |-> None, ty |-> None],
      args |-> None,
      properties |-> [properties |-> p],
      wrapper |-> None,
      ref_token |-> None,
      deref_token |-> None,
      returned_widget |-> None]
        : d \in {None, Some("doc")}, a \in {"None", "Local"}, m \in {None, Some("mut")},
          p \in OkPropertyLists}

\* What Widget::parse(input, attributes, None) can return.
WidgetParseResults == {Ok(w) : w \in OkWidgets} \cup {Err(e) : e \in WidgetDiagnostics}

(* ------------------------------------------------------------------ *)
(* The input                                                            *)
(* ------------------------------------------------------------------ *)

\* The leading attribute syntax of a token stream: absent, well formed
\* (spelling the attributes `attrs`), or malformed.
Inputs ==
    {[lead |-> "none", attrs |-> <<>>]}
        \cup {[lead |-> "wellformed", attrs |-> l] : l \in AttrLists \ {<<>>}}
        \cup {[lead |-> "malformed", attrs |-> l] : l \in {t \in AttrLists : Len(t) <= 1}}

\* Attrs::parse on the input: the attributes of a well-formed list, an error
\* for a malformed one.  For a stream without attribute syntax the parser
\* either yields the empty list or fails.
AttrsParseResults(inp) ==
    CASE inp.lead = "wellformed" -> {Ok([inner |-> inp.attrs])}
      [] inp.lead = "malformed" -> {Err(e) : e \in AttrDiagnostics}
      [] inp.lead = "none" ->
            {Ok([inner |-> <<>>])} \cup {Err(e) : e \in AttrDiagnostics}

(* ------------------------------------------------------------------ *)
(* TopLevelWidget::parse, statement by statement                        *)
(* ------------------------------------------------------------------ *)

VARIABLES
    input,            \* the token stream handed to parse
    pc,               \* position inside parse
    attrs_result,     \* what Attrs::parse returned (line 10, before .ok())
    prev_attributes,  \* `attributes` of line 10, `prev_attributes` of line 13
    iter,             \* the attributes into_iter() has not yielded yet (line 18)
    new_attributes,   \* `attributes.inner` of line 14, the list being rebuilt
    attributes,       \* `attributes` bound by line 13
    root_attr,        \* `root_attr` of line 17, bound again by line 13
    widget_calls,     \* the calls of Widget::parse made so far, with their arguments
    widget_result,    \* what Widget::parse returned (line 32)
    inner,            \* `inner` of line 32
    result            \* the value parse returned (line 61)

\* The state of a gio::SimpleAction with a handler connected by
\* connect_activate_safe_with_mut_state or
\* connect_activate_safe_with_target_and_mut_state
\* (src/relm4/src/safe_settings_and_actions/extensions.rs).
VARIABLES
    handler,          \* which of the two methods connected the handler
    action_state,     \* the action's state, a glib::Variant
    frames,           \* the handler invocations in progress, innermost last
    finished          \* the invocation that returned in the last step, if any

actionVars == <<handler, action_state, frames, finished>>

vars ==
    <<input, pc, attrs_result, prev_attributes, iter, new_attributes, attributes,
      root_attr, widget_calls, widget_result, inner, result, actionVars>>

\* glib::Variant: a value tagged with its variant type.
Variant(ty, v) == [ty |-> ty, val |-> v]

\* The variant type of the state of the action safety T.
StateType == "s"

\* ToVariant::to_variant on a value of T::Owned / T::State.
ToVariant(v) == Variant(StateType, v)

\* Variant::get::<T::Owned>(): the value when the variant has T::Owned's
\* type, None otherwise.
VariantGet(var) == IF var.ty = StateType THEN Some(var.val) ELSE None

\* The states and activation targets that are enumerated.
StateValues == {"off", "low", "high"}

TargetValues == {"t1", "t2"}

\* No action is in use while parse runs.
ActionIdle ==
    /\ handler = "mut_state"
    /\ action_state = ToVariant("off")
    /\ frames = <<>>
    /\ finished = None

Init ==
    /\ input \in Inputs
    /\ pc = "parse_attrs"
    /\ attrs_result = None
    /\ prev_attributes = None
    /\ iter = <<>>
    /\ new_attributes = <<>>
    /\ attributes = None
    /\ root_attr = None
    /\ widget_calls = <<>>
    /\ widget_result = None
    /\ inner = None
    /\ result = None
    /\ ActionIdle

\* Line 10: let attributes: Option<Attrs> = input.parse().ok();
ParseAttributes ==
    /\ pc = "parse_attrs"
    /\ \E r \in AttrsParseResults(input) :
          /\ attrs_result' = r
          /\ prev_attributes' = ResultOk(r)
    /\ pc' = "branch"
    /\ UNCHANGED <<input, iter, new_attributes, attributes, root_attr, widget_calls,
                   widget_result, inner, result>>
    /\ UNCHANGED actionVars

\* NewRootAttr with the slot starting out occupied.
NewRootAttr_Stale == Some(Ident(<<"r","o","o","t">>, "span_a"))

\* Line 17: let mut root_attr = None;
NewRootAttr == None

\* Lines 13-18: the Some branch; a fresh list, no root yet, start iterating.
EnterPartition ==
    /\ pc = "branch"
    /\ prev_attributes.tag = "Some"
    /\ new_attributes' = <<>>
    /\ root_attr' = NewRootAttr
    /\ iter' = prev_attributes.val.inner
    /\ pc' = "loop"
    /\ UNCHANGED <<input, attrs_result, prev_attributes, attributes, widget_calls,
                   widget_result, inner, result>>
    /\ UNCHANGED actionVars

\* AbsentPartition handing on an empty list instead of no list.
AbsentPartition_EmptyList == [attributes |-> Some([inner |-> <<>>]), root_attr |-> None]

\* Line 29: (None, None)
AbsentPartition == [attributes |-> None, root_attr |-> None]

\* Lines 28-30: the else branch.
NoAttributes ==
    /\ pc = "branch"
    /\ prev_attributes.tag = "None"
    /\ attributes' = AbsentPartition.attributes
    /\ root_attr' = AbsentPartition.root_attr
    /\ pc' = "call_widget"
    /\ UNCHANGED <<input, attrs_result, prev_attributes, iter, new_attributes,
                   widget_calls, widget_result, inner, result>>
    /\ UNCHANGED actionVars

\* RootArmRoot keeping the first root marker instead of the last.
RootArmRoot_KeepFirst(old_root, ident) ==
    IF old_root.tag = "None" THEN Some(ident) ELSE old_root

\* RootArmList pushing the root marker as well.
RootArmList_Push(list, attr) == Append(list, attr)

\* OtherArmList putting the attribute in front.
OtherArmList_Prepend(list, attr) == <<attr>> \o list

\* Lines 20-23: the Root arm; the identifier is saved ...
RootArmRoot(old_root, ident) == Some(ident)

\* ... and the attribute is not pushed to the new list.
RootArmList(list, attr) == list

\* Line 24: any other attribute is pushed to the new list.
OtherArmList(list, attr) == Append(list, attr)

\* Lines 18-23: one iteration on a root marker.
LoopRoot ==
    /\ pc = "loop"
    /\ iter # <<>>
    /\ IsRoot(Head(iter))
    /\ root_attr' = RootArmRoot(root_attr, Head(iter).ident)
    /\ new_attributes' = RootArmList(new_attributes, Head(iter))
    /\ iter' = Tail(iter)
    /\ UNCHANGED <<input, pc, attrs_result, prev_attributes, attributes, widget_calls,
                   widget_result, inner, result>>
    /\ UNCHANGED actionVars

\* Lines 18-19, 24: one iteration on any other attribute.
LoopOther ==
    /\ pc = "loop"
    /\ iter # <<>>
    /\ ~IsRoot(Head(iter))
    /\ new_attributes' = OtherArmList(new_attributes, Head(iter))
    /\ iter' = Tail(iter)
    /\ UNCHANGED <<input, pc, attrs_result, prev_attributes, attributes, root_attr,
                   widget_calls, widget_result, inner, result>>
    /\ UNCHANGED actionVars

\* Line 27: (Some(attributes), root_attr)
LoopEnd ==
    /\ pc = "loop"
    /\ iter = <<>>
    /\ attributes' = Some([inner |-> new_attributes])
    /\ pc' = "call_widget"
    /\ UNCHANGED <<input, attrs_result, prev_attributes, iter, new_attributes, root_attr,
                   widget_calls, widget_result, inner, result>>
    /\ UNCHANGED actionVars

\* WidgetParseArgs passing a parent context.
WidgetParseArgs_WithParent(attrs) == [attributes |-> attrs, args |-> Some("parent")]

\* Line 32: the arguments of Widget::parse(input, attributes, None).
WidgetParseArgs(attrs) == [attributes |-> attrs, args |-> None]

\* Line 32: the call of Widget::parse.
CallWidgetParse ==
    /\ pc = "call_widget"
    /\ widget_calls' = Append(widget_calls, WidgetParseArgs(attributes))
    /\ \E r \in WidgetParseResults : widget_result' = r
    /\ pc' = "match"
    /\ UNCHANGED <<input, attrs_result, prev_attributes, iter, new_attributes, attributes,
                   root_attr, inner, result>>
    /\ UNCHANGED actionVars

\* FallbackWidget keeping a second, ordinary property next to the ParseError.
FallbackWidget_ExtraProperty(err) ==
    [doc_attr |-> None,
     attr |-> "None",
     mutable |-> None,
     name |-> string_to_snake_case(Str_incorrect_top_level_widget),
     func |-> [path |-> strings_to_path(<<Str_gtk, Str_Box>>),
               args |-> None,
               method_chain |-> None,
               ty |-> None],
     args |-> None,
     properties |->
         [properties |->
             <<Property(string_to_snake_case(Str_invalid_property), ParseError(err)),
               Property(string_to_snake_case(Str_invalid_property), AssignProperty("true"))>>],
     wrapper |-> None,
     ref_token |-> None,
     deref_token |-> None,
     returned_widget |-> None]

\* Lines 34-58: the widget that stands for a body that failed to parse.
FallbackWidget(err) ==
    [doc_attr |-> None,
     attr |-> "None",
     mutable |-> None,
     name |-> string_to_snake_case(Str_incorrect_top_level_widget),
     func |-> [path |-> strings_to_path(<<Str_gtk, Str_Box>>),
               args |-> None,
               method_chain |-> None,
               ty |-> None],
     args |-> None,
     properties |->
         [properties |->
             <<Property(string_to_snake_case(Str_invalid_property), ParseError(err))>>],
     wrapper |-> None,
     ref_token |-> None,
     deref_token |-> None,
     returned_widget |-> None]

\* MatchInner handing the error on instead of absorbing it.
MatchInner_Propagate(res) == IF res.tag = "Ok" THEN res.val ELSE res

\* MatchInner embedding a diagnostic of its own that wraps the original message.
MatchInner_Rewrap(res) ==
    IF res.tag = "Ok"
    THEN res.val
    ELSE FallbackWidget(Diagnostic("invalid widget", res.err.span, res.err.origin))

\* Lines 32-59: let inner = match Widget::parse(..) { Ok(inner) => inner, Err(err) => .. }
MatchInner(res) == IF res.tag = "Ok" THEN res.val ELSE FallbackWidget(res.err)

\* Line 33: the Ok arm.
MatchOk ==
    /\ pc = "match"
    /\ widget_result.tag = "Ok"
    /\ inner' = MatchInner(widget_result)
    /\ pc' = "return"
    /\ UNCHANGED <<input, attrs_result, prev_attributes, iter, new_attributes, attributes,
                   root_attr, widget_calls, widget_result, result>>
    /\ UNCHANGED actionVars

\* Lines 34-58: the Err arm.
MatchErr ==
    /\ pc = "match"
    /\ widget_result.tag = "Err"
    /\ inner' = MatchInner(widget_result)
    /\ pc' = "return"
    /\ UNCHANGED <<input, attrs_result, prev_attributes, iter, new_attributes, attributes,
                   root_attr, widget_calls, widget_result, result>>
    /\ UNCHANGED actionVars

\* TopLevelWidget forgetting the root marker next to a widget without
\* documentation, mutability and arguments (as the fallback widget is).
TopLevelWidget_DropRoot(root, widget) ==
    [root_attr |-> IF widget.doc_attr = None /\ widget.mutable = None THEN None ELSE root,
     inner |-> widget]

\* Line 61: Self { root_attr, inner }
TopLevelWidget(root, widget) == [root_attr |-> root, inner |-> widget]

\* Line 61: parse returns.
Return ==
    /\ pc = "return"
    /\ result' = TopLevelWidget(root_attr, inner)
    /\ pc' = "done"
    /\ UNCHANGED <<input, attrs_result, prev_attributes, iter, new_attributes, attributes,
                   root_attr, widget_calls, widget_result, inner>>
    /\ UNCHANGED actionVars

Next ==
    \/ ParseAttributes
    \/ EnterPartition
    \/ NoAttributes
    \/ LoopRoot
    \/ LoopOther
    \/ LoopEnd
    \/ CallWidgetParse
    \/ MatchOk
    \/ MatchErr
    \/ Return

Spec == Init /\ [][Next]_vars

(* ------------------------------------------------------------------ *)
(* Vocabulary of the properties                                         *)
(* ------------------------------------------------------------------ *)

Done == pc = "done"

\* The attribute list Attrs::parse produced, when it produced one.
AttrsParsed == attrs_result.tag = "Ok"

ParsedList == attrs_result.val.inner

BodyFailed == widget_result.tag = "Err"

BodySucceeded == widget_result.tag = "Ok"

\* The attributes handed to the (first) call of Widget::parse.
PassedAttributes == widget_calls[1].attributes

\* The properties of the returned inner widget.
ResultProperties == result.inner.properties.properties

RootPositions(list) == {i \in 1..Len(list) : IsRoot(list[i])}

Max(S) == CHOOSE x \in S : \A y \in S : y <= x

\* The list without its element at position i.
WithoutPosition(list, i) == [j \in 1..(Len(list) - 1) |-> IF j < i THEN list[j] ELSE list[j + 1]]

\* How often a value occurs in a list.
Occurrences(list, a) == Cardinality({i \in 1..Len(list) : list[i] = a})

IsOption(v) == v.tag \in {"None", "Some"}

(* ------------------------------------------------------------------ *)
(* C1                                                                   *)
(* ------------------------------------------------------------------ *)

\* C1: parse is total.  From every position short of the return a next
\* statement can run, whatever the two sub-parsers returned, and the value
\* parse returns is a TopLevelWidget {root_attr, inner} whose inner is a
\* widget: no error value is returned or handed on to the caller.
C1_ParseIsTotal ==
    /\ ~Done => ENABLED Next
    /\ Done =>
          /\ DOMAIN result = {"root_attr", "inner"}
          /\ IsOption(result.root_attr)
          /\ IsWidget(result.inner)

\* Both sub-parsers failed and parse returned all the same.
C1_Witness == Done /\ attrs_result.tag = "Err" /\ BodyFailed

(* ------------------------------------------------------------------ *)
(* C2                                                                   *)
(* ------------------------------------------------------------------ *)

\* C2: when Widget::parse fails, the returned inner widget has exactly one
\* property, named invalid_property and of kind ParseError; its name is
\* incorrect_top_level_widget; its function is the path gtk::Box without
\* arguments, method chain or type; every other field is empty.
C2_FallbackShape ==
    (Done /\ BodyFailed) =>
        LET w == result.inner
        IN /\ Len(w.properties.properties) = 1
           /\ w.properties.properties[1].name.kind = "Ident"
           /\ w.properties.properties[1].name.ident.text = Str_invalid_property
           /\ w.properties.properties[1].ty.kind = "ParseError"
           /\ w.name.text = Str_incorrect_top_level_widget
           /\ w.func.path.segments = <<Str_gtk, Str_Box>>
           /\ w.func.path.leading_colon = None
           /\ w.func.args = None
           /\ w.func.method_chain = None
           /\ w.func.ty = None
           /\ w.doc_attr = None
           /\ w.attr = "None"
           /\ w.mutable = None
           /\ w.args = None
           /\ w.wrapper = None
           /\ w.ref_token = None
           /\ w.deref_token = None
           /\ w.returned_widget = None

\* A body that failed behind a well-formed attribute list with a root marker.
C2_Witness == Done /\ BodyFailed /\ AttrsParsed /\ RootPositions(ParsedList) # {}

(* ------------------------------------------------------------------ *)
(* C3                                                                   *)
(* ------------------------------------------------------------------ *)

\* C3: when Widget::parse fails with diagnostic e, the ParseError property
\* of the returned widget carries e itself: same message, same span.
C3_DiagnosticKept ==
    (Done /\ BodyFailed) =>
        /\ ResultProperties[1].ty = ParseError(widget_result.err)
        /\ ResultProperties[1].ty.err.message = widget_result.err.message
        /\ ResultProperties[1].ty.err.span = widget_result.err.span

\* A body that failed with one particular message and span.
C3_Witness ==
    /\ Done
    /\ BodyFailed
    /\ widget_result.err.message = "unexpected end of input"
    /\ widget_result.err.span = "span_d"

(* ------------------------------------------------------------------ *)
(* C4                                                                   *)
(* ------------------------------------------------------------------ *)

\* C4 as stated: whenever the parsed list of n attributes has a root marker
\* at some position i, the list handed to Widget::parse has length n-1 and
\* is the parsed list without position i, and root_attr is that marker's
\* identifier.
C4_AnyRootMarker ==
    (Done /\ AttrsParsed) =>
        \A i \in RootPositions(ParsedList) :
            /\ PassedAttributes.tag = "Some"
            /\ Len(PassedAttributes.val.inner) = Len(ParsedList) - 1
            /\ PassedAttributes.val.inner = WithoutPosition(ParsedList, i)
            /\ result.root_attr = Some(ParsedList[i].ident)

\* C4: whenever the parsed list of n attributes has exactly one root marker,
\* at position i, the list handed to Widget::parse has length n-1 and is the
\* parsed list without position i (the other attributes in their order),
\* and root_attr is that marker's identifier.
C4_RootExtraction ==
    (Done /\ AttrsParsed /\ Cardinality(RootPositions(ParsedList)) = 1) =>
        \A i \in RootPositions(ParsedList) :
            /\ PassedAttributes.tag = "Some"
            /\ Len(PassedAttributes.val.inner) = Len(ParsedList) - 1
            /\ PassedAttributes.val.inner = WithoutPosition(ParsedList, i)
            /\ result.root_attr = Some(ParsedList[i].ident)

\* The one root marker stands between two different other attributes.
C4_Witness ==
    /\ Done
    /\ AttrsParsed
    /\ Len(ParsedList) = 3
    /\ RootPositions(ParsedList) = {2}
    /\ ParsedList[1] # ParsedList[3]

(* ------------------------------------------------------------------ *)
(* C5                                                                   *)
(* ------------------------------------------------------------------ *)

\* The attributes root_attr accounts for: the root marker it holds, if any.
RelocatedOccurrences(a) ==
    IF IsRoot(a) /\ result.root_attr = Some(a.ident) THEN 1 ELSE 0

\* C5 as stated: no attribute is duplicated or dropped.  Every attribute of
\* the parsed list is found again exactly as often, either in the list
\* handed to Widget::parse or, for the root marker, in root_attr; nothing but
\* the root marker leaves the list, and it is not lost.
C5_NothingLost ==
    (Done /\ AttrsParsed) =>
        /\ PassedAttributes.tag = "Some"
        /\ \A a \in AttrValues :
              /\ Occurrences(ParsedList, a)
                    = Occurrences(PassedAttributes.val.inner, a) + RelocatedOccurrences(a)
              /\ IsRoot(a) => Occurrences(PassedAttributes.val.inner, a) = 0

\* C5: every non-root attribute occurs in the list handed to Widget::parse
\* exactly as often as in the parsed list; root markers are the only
\* attributes removed and none stays in the list; the last root marker is
\* relocated to root_attr (root_attr is None exactly when there is none),
\* and root markers before the last one are dropped.
C5_Conservation ==
    (Done /\ AttrsParsed) =>
        /\ PassedAttributes.tag = "Some"
        /\ \A a \in AttrValues :
              IF IsRoot(a)
              THEN Occurrences(PassedAttributes.val.inner, a) = 0
              ELSE Occurrences(PassedAttributes.val.inner, a) = Occurrences(ParsedList, a)
        /\ Len(PassedAttributes.val.inner)
              = Len(ParsedList) - Cardinality(RootPositions(ParsedList))
        /\ IF RootPositions(ParsedList) = {}
           THEN result.root_attr = None
           ELSE result.root_attr = Some(ParsedList[Max(RootPositions(ParsedList))].ident)

\* A root marker next to an attribute that occurs twice.
C5_Witness ==
    /\ Done
    /\ AttrsParsed
    /\ Cardinality(RootPositions(ParsedList)) = 1
    /\ \E a \in AttrValues : ~IsRoot(a) /\ Occurrences(ParsedList, a) = 2

(* ------------------------------------------------------------------ *)
(* C6                                                                   *)
(* ------------------------------------------------------------------ *)

\* C6: with more than one root marker in the parsed list, parse reports no
\* error (the inner widget is what Widget::parse returned, or the fallback
\* for Widget::parse's own failure), root_attr is the identifier of the last
\* root marker in list order, and no root marker is in the list handed to
\* Widget::parse.
C6_LastRootWins ==
    (Done /\ AttrsParsed /\ Cardinality(RootPositions(ParsedList)) > 1) =>
        /\ result.root_attr = Some(ParsedList[Max(RootPositions(ParsedList))].ident)
        /\ PassedAttributes.tag = "Some"
        /\ RootPositions(PassedAttributes.val.inner) = {}
        /\ BodySucceeded => result.inner = widget_result.val
        /\ BodyFailed =>
              \A k \in 1..Len(ResultProperties) :
                  ResultProperties[k].ty.kind = "ParseError"
                      => ResultProperties[k].ty.err = widget_result.err

\* Two root markers with different identifiers, the body parsed.
C6_Witness ==
    /\ Done
    /\ AttrsParsed
    /\ BodySucceeded
    /\ \E i, j \in RootPositions(ParsedList) :
          i < j /\ ParsedList[i].ident # ParsedList[j].ident

(* ------------------------------------------------------------------ *)
(* C7                                                                   *)
(* ------------------------------------------------------------------ *)

\* C7: when Attrs::parse fails, parse still calls Widget::parse, hands it
\* no attributes (None), returns root_attr = None, and no ParseError
\* property of the returned widget carries the diagnostic of Attrs::parse.
C7_MalformedAttributesAbsorbed ==
    (Done /\ attrs_result.tag = "Err") =>
        /\ Len(widget_calls) = 1
        /\ PassedAttributes = None
        /\ result.root_attr = None
        /\ \A k \in 1..Len(ResultProperties) :
              ResultProperties[k].ty.kind = "ParseError"
                  => /\ ResultProperties[k].ty.err # attrs_result.err
                     /\ ResultProperties[k].ty.err.origin # "Attrs::parse"

\* A malformed attribute list that spelled a root marker, before a body
\* that failed with the very message and span Attrs::parse failed with.
C7_Witness ==
    /\ Done
    /\ input.lead = "malformed"
    /\ RootPositions(input.attrs) # {}
    /\ BodyFailed
    /\ widget_result.err.message = attrs_result.err.message
    /\ widget_result.err.span = attrs_result.err.span

(* ------------------------------------------------------------------ *)
(* C8                                                                   *)
(* ------------------------------------------------------------------ *)

\* The number of attributes in an Option<Attrs>; no list holds none.
AttributeCount(opt) == IF opt.tag = "Some" THEN Len(opt.val.inner) ELSE 0

\* C8: an input without leading attribute syntax yields root_attr = None,
\* and the attributes handed to Widget::parse number 0.
C8_NoAttributeInput ==
    (Done /\ input.lead = "none") =>
        /\ result.root_attr = None
        /\ AttributeCount(PassedAttributes) = 0

\* An input without attribute syntax for which Attrs::parse returned the
\* empty list, so that the partitioning branch ran.
C8_Witness == Done /\ input.lead = "none" /\ AttrsParsed /\ PassedAttributes.tag = "Some"

(* ------------------------------------------------------------------ *)
(* C9                                                                   *)
(* ------------------------------------------------------------------ *)

\* The root marker a result of Attrs::parse determines: the identifier of
\* the last root marker of the list, None without one or without a list.
RootOf(parsed) ==
    IF parsed.tag = "Ok" /\ RootPositions(parsed.val.inner) # {}
    THEN Some(parsed.val.inner[Max(RootPositions(parsed.val.inner))].ident)
    ELSE None

\* C9: root_attr is a function of the leading attributes alone.  From the
\* call of Widget::parse on, whatever it returns, root_attr stays what the
\* parsed attribute list determines, and that is what parse returns: next to
\* a parsed widget and next to the fallback widget alike.
C9_RootIndependentOfBody ==
    /\ pc \in {"match", "return", "done"} => root_attr = RootOf(attrs_result)
    /\ Done => result.root_attr = RootOf(attrs_result)

\* A root marker reported next to the fallback widget.
C9_Witness ==
    /\ Done
    /\ BodyFailed
    /\ result.root_attr.tag = "Some"
    /\ result.inner.name.text = Str_incorrect_top_level_widget

(* ------------------------------------------------------------------ *)
(* C10                                                                  *)
(* ------------------------------------------------------------------ *)

\* The non-root attributes of a result of Attrs::parse, in order.
NonRootOf(parsed) ==
    IF parsed.tag = "Ok"
    THEN Some([inner |-> SelectSeq(parsed.val.inner, LAMBDA a : ~IsRoot(a))])
    ELSE None

\* C10: Widget::parse is called exactly once per call of parse: not before
\* the partitioning is over, never a second time, with the non-root
\* attributes and no parent context; when it returns Ok(w), the returned
\* inner widget is w.
C10_WidgetParseOnce ==
    /\ Len(widget_calls) <= 1
    /\ pc \in {"parse_attrs", "branch", "loop", "call_widget"} => widget_calls = <<>>
    /\ pc \in {"match", "return", "done"} =>
          /\ Len(widget_calls) = 1
          /\ widget_calls[1].attributes = NonRootOf(attrs_result)
          /\ widget_calls[1].args = None
    /\ (Done /\ BodySucceeded) => result.inner = widget_result.val

\* The body parsed, with a ParseError property of its own, behind a list
\* that held a root marker and another attribute.
C10_Witness ==
    /\ Done
    /\ BodySucceeded
    /\ AttrsParsed
    /\ RootPositions(ParsedList) # {}
    /\ Len(PassedAttributes.val.inner) >= 1
    /\ \E k \in 1..Len(ResultProperties) : ResultProperties[k].ty.kind = "ParseError"

(* ------------------------------------------------------------------ *)
(* SafeSimpleAction: handlers that mutate the state                     *)
(* ------------------------------------------------------------------ *)

\* Deepest nesting of activations (a callback activating its own action)
\* that is enumerated.
MaxDepth == 2

parseVars ==
    <<input, pc, attrs_result, prev_attributes, iter, new_attributes, attributes,
      root_attr, widget_calls, widget_result, inner, result>>

\* Lines 290-292: new_stateful_safe; the action's first state is
\* state.to_variant().
new_stateful_safe(state) == ToVariant(state)

\* gio::SimpleAction::set_state: the value becomes the action's state; a value
\* of another type than the state's is refused.
set_state(current, value) == IF value.ty = current.ty THEN value ELSE current

\* The parameters an activation of the action can carry: none for an action
\* safety without value, a target for one with value.
ActivationParameters ==
    IF handler = "mut_state"
    THEN {None}
    ELSE {Some(Variant("t", t)) : t \in TargetValues}

\* A handler invocation that has just been entered: the closure of lines
\* 327-331 or 360-369 with its parameter `variant`; `state` is not bound yet.
\* `read`, `given`, `called` and `direct` record, for the properties, the
\* value read from the action, the value the callback was handed, the number
\* of calls of the callback and the last value the callback gave the action
\* directly.
NewFrame(variant) ==
    [pc |-> "read", variant |-> variant, state |-> None,
     read |-> None, given |-> None, called |-> 0, direct |-> None]

Top == frames[Len(frames)]

SetTop(frame) == [frames EXCEPT ![Len(frames)] = frame]

Pop == SubSeq(frames, 1, Len(frames) - 1)

\* Parse is not running while the action is in use.
ParseIdle ==
    /\ input = [lead |-> "none", attrs |-> <<>>]
    /\ pc = "parse_attrs"
    /\ attrs_result = None
    /\ prev_attributes = None
    /\ iter = <<>>
    /\ new_attributes = <<>>
    /\ attributes = None
    /\ root_attr = None
    /\ widget_calls = <<>>
    /\ widget_result = None
    /\ inner = None
    /\ result = None

\* A stateful action made by new_stateful_safe, with a handler connected by
\* one of the two methods (lines 322-332, 352-370).
ActionInit ==
    /\ ParseIdle
    /\ handler \in {"mut_state", "target_and_mut_state"}
    /\ \E s \in StateValues : action_state = new_stateful_safe(s)
    /\ frames = <<>>
    /\ finished = None

\* The action is activated from outside: connect_activate runs the closure.
Activate ==
    /\ frames = <<>>
    /\ \E variant \in ActivationParameters : frames' = <<NewFrame(variant)>>
    /\ finished' = None
    /\ UNCHANGED <<handler, action_state, parseVars>>

\* Lines 327, 360: let mut state = this.state().unwrap().get().unwrap();
ReadState ==
    /\ frames # <<>>
    /\ Top.pc = "read"
    /\ VariantGet(action_state).tag = "Some"
    /\ frames' = SetTop([Top EXCEPT !.state = VariantGet(action_state),
                                    !.read = VariantGet(action_state),
                                    !.pc = "call"])
    /\ finished' = None
    /\ UNCHANGED <<handler, action_state, parseVars>>

\* Lines 328, 361-366: callback(T::SELF, this, [target,] &mut state) is entered.
CallCallback ==
    /\ frames # <<>>
    /\ Top.pc = "call"
    /\ frames' = SetTop([Top EXCEPT !.given = Top.state,
                                    !.called = Top.called + 1,
                                    !.pc = "in_callback"])
    /\ finished' = None
    /\ UNCHANGED <<handler, action_state, parseVars>>

\* The callback writes through its &mut state.
CallbackMutates ==
    /\ frames # <<>>
    /\ Top.pc = "in_callback"
    /\ \E v \in StateValues : frames' = SetTop([Top EXCEPT !.state = Some(v)])
    /\ finished' = None
    /\ UNCHANGED <<handler, action_state, parseVars>>

\* The callback changes the action's state directly, through `this`.
CallbackSetsState ==
    /\ frames # <<>>
    /\ Top.pc = "in_callback"
    /\ \E v \in StateValues :
          /\ action_state' = set_state(action_state, ToVariant(v))
          /\ frames' = SetTop([Top EXCEPT !.direct = Some(v)])
    /\ finished' = None
    /\ UNCHANGED <<handler, parseVars>>

\* The callback activates the action again, through `this`.
CallbackActivates ==
    /\ frames # <<>>
    /\ Top.pc = "in_callback"
    /\ Len(frames) < MaxDepth
    /\ \E variant \in ActivationParameters : frames' = Append(frames, NewFrame(variant))
    /\ finished' = None
    /\ UNCHANGED <<handler, action_state, parseVars>>

\* The callback returns.
CallbackReturns ==
    /\ frames # <<>>
    /\ Top.pc = "in_callback"
    /\ frames' = SetTop([Top EXCEPT !.pc = "set"])
    /\ finished' = None
    /\ UNCHANGED <<handler, action_state, parseVars>>

\* StateAfterHandler leaving the action's state as it is.
StateAfterHandler_Skip(current, state) == current

\* Lines 330, 368: this.set_state(state.to_variant());
StateAfterHandler(current, state) == set_state(current, ToVariant(state))

\* Lines 330-331, 368-369: the state is set and the closure returns.
SetState ==
    /\ frames # <<>>
    /\ Top.pc = "set"
    /\ action_state' = StateAfterHandler(action_state, Top.state.val)
    /\ frames' = Pop
    /\ finished' = Some(Top)
    /\ UNCHANGED <<handler, parseVars>>

ActionNext ==
    \/ Activate
    \/ ReadState
    \/ CallCallback
    \/ CallbackMutates
    \/ CallbackSetsState
    \/ CallbackActivates
    \/ CallbackReturns
    \/ SetState

SpecAction == ActionInit /\ [][ActionNext]_vars

(* ------------------------------------------------------------------ *)
(* C11                                                                  *)
(* ------------------------------------------------------------------ *)

\* C11: in every handler invocation the action's state is read before the
\* callback is called, the callback is called once and is handed a copy of
\* the state read, and when the invocation returns the action's state is the
\* value the callback left in the copy, whatever the callback gave the
\* action directly in between.
C11_StateIsCallbacksCopy ==
    /\ \A k \in 1..Len(frames) :
          /\ frames[k].pc = "read" =>
                frames[k].called = 0 /\ frames[k].read = None
          /\ frames[k].pc = "call" =>
                /\ frames[k].called = 0
                /\ frames[k].read = VariantGet(action_state)
                /\ frames[k].state = frames[k].read
          /\ frames[k].pc \in {"in_callback", "set"} =>
                /\ frames[k].called = 1
                /\ frames[k].read.tag = "Some"
                /\ frames[k].given = frames[k].read
    /\ finished.tag = "Some" =>
          /\ finished.val.called = 1
          /\ finished.val.given = finished.val.read
          /\ action_state = ToVariant(finished.val.state.val)

\* An invocation returned whose callback changed its copy and gave the
\* action another value directly.
C11_Witness ==
    /\ finished.tag = "Some"
    /\ finished.val.state # finished.val.read
    /\ finished.val.direct.tag = "Some"
    /\ finished.val.direct # finished.val.state
    /\ finished.val.direct # finished.val.read

====
